---- MODULE Spec2Model ----
(***************************************************************************)
(* A model of the checkers rules engine of src/checkers.py: Piece, Board,  *)
(* ComputerPlayer and the Game main loop (Game.play), one frame at a time. *)
(*                                                                         *)
(* Python objects are modelled as a heap: `pieces` maps a piece id to the  *)
(* Piece object's fields, the grid holds piece ids (0 is Python's None).   *)
(* A Python dict is a sequence of [k, v] entries in insertion order, which *)
(* is the iteration order of the dict.                                     *)
(***************************************************************************)
EXTENDS Integers, Sequences, FiniteSets, TLC

ROWS == 8
COLS == 8

\* Largest number of moves explored from a position of a game in progress,
\* and from a new game.
MaxMoves == 3
OpeningMoves == 2

\* Longest capture list of the move sets drawn for ComputerPlayer.get_move.
MaxCaptures == 2

None == 0
NoColor == "none"

Rows == 0 .. (ROWS - 1)
Cols == 0 .. (COLS - 1)
Cells == Rows \X Cols

VARIABLES
    grid,               \* Board.grid: cell -> piece id or None
    pieces,             \* heap of Piece objects: id -> [color, king, row, col]
    red_left,           \* Board.red_left
    black_left,         \* Board.black_left
    red_kings,          \* Board.red_kings
    black_kings,        \* Board.black_kings
    mode,               \* Game.mode
    difficulty,         \* ComputerPlayer.difficulty
    current_color,      \* Game.current_color
    selected_piece,     \* Game.selected_piece: piece id or None
    valid_moves,        \* Game.valid_moves: dict source -> dict destination -> captures
    game_over,          \* Game.game_over
    winner,             \* Game.winner
    waiting_for_player, \* Game.waiting_for_player
    running,            \* local `running` of Game.play
    pc,                 \* position inside one iteration of the loop of Game.play
    move,               \* local `move` of Game.play: the pair get_move returned
    move_limit,         \* the number of moves explored from the starting position
    moves_made,         \* history: number of calls of Board.move_piece so far
    last                \* history: the last call of Board.move_piece

vars == <<grid, pieces, red_left, black_left, red_kings, black_kings, mode,
          difficulty, current_color, selected_piece, valid_moves, game_over,
          winner, waiting_for_player, running, pc, move, move_limit,
          moves_made, last>>

-----------------------------------------------------------------------------------------------------------------------------------------------------
(* Evaluation order                                                        *)

\* Body applied to the value of an expression that is evaluated once, as a
\* Python assignment to a local variable evaluates its right-hand side once.
Bind(value, Body(_)) == CHOOSE result \in {Body(v) : v \in {value}} : TRUE

-----
(* Python dicts as sequences of entries                                    *)

Keys(d) == {d[i].k : i \in DOMAIN d}

HasKey(d, key) == \E i \in DOMAIN d : d[i].k = key

Lookup(d, key) == d[CHOOSE i \in DOMAIN d : d[i].k = key].v

-----------------------------------------------------------------------------
(* Piece                                                                   *)

Piece(color, row, col, king) ==
    [color |-> color, king |-> king, row |-> row, col |-> col]

\* Piece.move: the piece's own row and col are overwritten.
PieceMove(p, row, col) == [p EXCEPT !.row = row, !.col = col]

\* Piece.make_king
make_king(p) == [p EXCEPT !.king = TRUE]

OtherColor(color) == IF color = "red" THEN "black" ELSE "red"

-----------------------------------------------------------------------------
(* Board.  The operators take a record b holding the fields of the Board   *)
(* (grid, red_left, black_left, red_kings, black_kings) and the heap of    *)
(* pieces, and return what the method returns or the record it leaves.     *)

\* The cells in the order of the nested `for row ... for col` loops.
CellSeq == [i \in 1 .. (ROWS * COLS) |-> <<(i - 1) \div COLS, (i - 1) % COLS>>]

Abs(n) == IF n < 0 THEN -n ELSE n

\* Board.get_piece
get_piece(b, row, col) ==
    IF 0 <= row /\ row < 8 /\ 0 <= col /\ col < 8
    THEN b.grid[<<row, col>>]
    ELSE None

\* relocate without the call of Piece.move: the piece keeps its old row, col.
relocate_no_move(b, from_pos, to_pos) ==
    LET piece == b.grid[from_pos]
    IN  [b EXCEPT !.grid = [@ EXCEPT ![from_pos] = None, ![to_pos] = piece]]

\* Board.move_piece, first part: the piece leaves from_pos, takes the new
\* row and col (Piece.move) and is stored at to_pos.
relocate(b, from_pos, to_pos) ==
    LET piece == b.grid[from_pos]
    IN  [b EXCEPT !.grid = [@ EXCEPT ![from_pos] = None, ![to_pos] = piece],
                  !.pieces = [@ EXCEPT ![piece] = PieceMove(@, to_pos[1], to_pos[2])]]

\* crown without the update of the king counter.
crown_no_count(b, to_pos) ==
    LET piece == b.grid[to_pos]
        color == b.pieces[piece].color
        to_row == to_pos[1]
    IN  IF (color = "red" /\ to_row = 0) \/ (color = "black" /\ to_row = 7)
        THEN [b EXCEPT !.pieces = [@ EXCEPT ![piece] = make_king(@)]]
        ELSE b

\* Board.move_piece, second part: the kinging of the piece now at to_pos.
crown(b, to_pos) ==
    LET piece == b.grid[to_pos]
        color == b.pieces[piece].color
        to_row == to_pos[1]
    IN  IF (color = "red" /\ to_row = 0) \/ (color = "black" /\ to_row = 7)
        THEN [b EXCEPT !.pieces = [@ EXCEPT ![piece] = make_king(@)],
                       !.red_kings = IF color = "red" THEN @ + 1 ELSE @,
                       !.black_kings = IF color = "red" THEN @ ELSE @ + 1]
        ELSE b

\* capture without the update of the king counter of the captured colour.
capture_keeps_kings(b, mid) ==
    LET captured_piece == b.grid[mid]
        b1 == IF captured_piece # None
              THEN IF b.pieces[captured_piece].color = "red"
                   THEN [b EXCEPT !.red_left = @ - 1]
                   ELSE [b EXCEPT !.black_left = @ - 1]
              ELSE b
    IN  [b1 EXCEPT !.grid = [@ EXCEPT ![mid] = None]]

\* capture with the colour test of the jumped piece the wrong way round.
capture_wrong_side(b, mid) ==
    LET captured_piece == b.grid[mid]
        b1 == IF captured_piece # None
              THEN IF b.pieces[captured_piece].color = "black"
                   THEN [b EXCEPT !.red_left = @ - 1,
                                  !.red_kings = IF b.pieces[captured_piece].king
                                                THEN @ - 1 ELSE @]
                   ELSE [b EXCEPT !.black_left = @ - 1,
                                  !.black_kings = IF b.pieces[captured_piece].king
                                                  THEN @ - 1 ELSE @]
              ELSE b
    IN  [b1 EXCEPT !.grid = [@ EXCEPT ![mid] = None]]

\* Board.move_piece, third part: the removal of the piece on the jumped cell.
capture(b, mid) ==
    LET captured_piece == b.grid[mid]
        b1 == IF captured_piece # None
              THEN IF b.pieces[captured_piece].color = "red"
                   THEN [b EXCEPT !.red_left = @ - 1,
                                  !.red_kings = IF b.pieces[captured_piece].king
                                                THEN @ - 1 ELSE @]
                   ELSE [b EXCEPT !.black_left = @ - 1,
                                  !.black_kings = IF b.pieces[captured_piece].king
                                                  THEN @ - 1 ELSE @]
              ELSE b
    IN  [b1 EXCEPT !.grid = [@ EXCEPT ![mid] = None]]

\* Board.move_piece: returns the board it leaves and the list it returns.
move_piece(b, from_pos, to_pos) ==
    LET from_row == from_pos[1]
        from_col == from_pos[2]
        to_row == to_pos[1]
        to_col == to_pos[2]
        mid_row == (from_row + to_row) \div 2
        mid_col == (from_col + to_col) \div 2
    IN  Bind(relocate(b, from_pos, to_pos), LAMBDA b1 :
        Bind(crown(b1, to_pos), LAMBDA b2 :
            IF Abs(from_row - to_row) = 2
            THEN [board |-> capture(b2, <<mid_row, mid_col>>),
                  captured |-> << <<mid_row, mid_col>> >>]
            ELSE [board |-> b2, captured |-> << >>]))

\* Directions without the `or piece.king` of the two tests: a king keeps the
\* directions of its colour.
Directions_of_colour(p) ==
    (IF p.color = "red" THEN << <<-1, -1>>, <<-1, 1>> >> ELSE << >>)
    \o (IF p.color = "black" THEN << <<1, -1>>, <<1, 1>> >> ELSE << >>)

\* The `directions` list of Board.get_valid_moves.
Directions(p) ==
    (IF p.color = "red" \/ p.king THEN << <<-1, -1>>, <<-1, 1>> >> ELSE << >>)
    \o (IF p.color = "black" \/ p.king THEN << <<1, -1>>, <<1, 1>> >> ELSE << >>)

\* get_valid_moves without the test of the colour of the adjacent piece: a
\* piece jumps over pieces of its own colour too.
get_valid_moves_any_adjacent(b, row, col, jump_only) ==
    LET piece == get_piece(b, row, col) IN
    IF piece = None THEN << >>
    ELSE
    LET p == b.pieces[piece]
        directions == Directions(p)
        CanJump(d) ==
            LET r == row + d[1]
                c == col + d[2]
                adjacent == get_piece(b, r, c)
                jump_r == r + d[1]
                jump_c == c + d[2]
            IN  /\ 0 <= r /\ r < 8 /\ 0 <= c /\ c < 8
                /\ adjacent # None
                /\ 0 <= jump_r /\ jump_r < 8 /\ 0 <= jump_c /\ jump_c < 8
                /\ get_piece(b, jump_r, jump_c) = None
        CanStep(d) ==
            LET r == row + d[1]
                c == col + d[2]
            IN  /\ 0 <= r /\ r < 8 /\ 0 <= c /\ c < 8
                /\ get_piece(b, r, c) = None
    IN  Bind(SelectSeq(directions, CanJump), LAMBDA jdirs :
            IF jdirs # << >> \/ jump_only
            THEN [i \in DOMAIN jdirs |->
                    [k |-> <<row + 2 * jdirs[i][1], col + 2 * jdirs[i][2]>>,
                     v |-> << <<row + jdirs[i][1], col + jdirs[i][2]>> >>]]
            ELSE Bind(SelectSeq(directions, CanStep), LAMBDA sdirs :
                    [i \in DOMAIN sdirs |->
                        [k |-> <<row + sdirs[i][1], col + sdirs[i][2]>>,
                         v |-> << >>]]))

\* Board.get_valid_moves: a dict destination -> list of captured cells.
get_valid_moves(b, row, col, jump_only) ==
    LET piece == get_piece(b, row, col) IN
    IF piece = None THEN << >>
    ELSE
    LET p == b.pieces[piece]
        directions == Directions(p)
        CanJump(d) ==
            LET r == row + d[1]
                c == col + d[2]
                adjacent == get_piece(b, r, c)
                jump_r == r + d[1]
                jump_c == c + d[2]
            IN  /\ 0 <= r /\ r < 8 /\ 0 <= c /\ c < 8
                /\ adjacent # None
                /\ b.pieces[adjacent].color # p.color
                /\ 0 <= jump_r /\ jump_r < 8 /\ 0 <= jump_c /\ jump_c < 8
                /\ get_piece(b, jump_r, jump_c) = None
        CanStep(d) ==
            LET r == row + d[1]
                c == col + d[2]
            IN  /\ 0 <= r /\ r < 8 /\ 0 <= c /\ c < 8
                /\ get_piece(b, r, c) = None
    IN  Bind(SelectSeq(directions, CanJump), LAMBDA jdirs :
            IF jdirs # << >> \/ jump_only
            THEN [i \in DOMAIN jdirs |->
                    [k |-> <<row + 2 * jdirs[i][1], col + 2 * jdirs[i][2]>>,
                     v |-> << <<row + jdirs[i][1], col + jdirs[i][2]>> >>]]
            ELSE Bind(SelectSeq(directions, CanStep), LAMBDA sdirs :
                    [i \in DOMAIN sdirs |->
                        [k |-> <<row + sdirs[i][1], col + sdirs[i][2]>>,
                         v |-> << >>]]))

\* get_all_valid_moves without the early return on has_jumps: the second loop
\* runs as well and stores the moves of every piece of the colour.
get_all_valid_moves_no_return(b, color, jump_only) ==
    LET Mine(cell) == /\ b.grid[cell] # None
                      /\ b.pieces[b.grid[cell]].color = color
        Jumper(cell) == Mine(cell)
                        /\ get_valid_moves(b, cell[1], cell[2], TRUE) # << >>
        Mover(cell) == Mine(cell)
                       /\ get_valid_moves(b, cell[1], cell[2], FALSE) # << >>
    IN  Bind(SelectSeq(CellSeq, Jumper), LAMBDA jsrc :
            IF jump_only
            THEN [i \in DOMAIN jsrc |->
                    [k |-> jsrc[i],
                     v |-> get_valid_moves(b, jsrc[i][1], jsrc[i][2], TRUE)]]
            ELSE Bind(SelectSeq(CellSeq, LAMBDA cell : Mover(cell) /\ ~ Jumper(cell)),
                      LAMBDA msrc :
                    [i \in DOMAIN jsrc |->
                        [k |-> jsrc[i],
                         v |-> get_valid_moves(b, jsrc[i][1], jsrc[i][2], FALSE)]]
                    \o [i \in DOMAIN msrc |->
                        [k |-> msrc[i],
                         v |-> get_valid_moves(b, msrc[i][1], msrc[i][2], FALSE)]]))

\* Board.get_all_valid_moves: a dict source -> dict of get_valid_moves.
get_all_valid_moves(b, color, jump_only) ==
    LET Mine(cell) == /\ b.grid[cell] # None
                      /\ b.pieces[b.grid[cell]].color = color
        Jumper(cell) == Mine(cell)
                        /\ get_valid_moves(b, cell[1], cell[2], TRUE) # << >>
        Mover(cell) == Mine(cell)
                       /\ get_valid_moves(b, cell[1], cell[2], FALSE) # << >>
    IN  Bind(SelectSeq(CellSeq, Jumper), LAMBDA jsrc :
            \* has_jumps is jsrc # << >>
            IF jsrc # << >> \/ jump_only
            THEN [i \in DOMAIN jsrc |->
                    [k |-> jsrc[i],
                     v |-> get_valid_moves(b, jsrc[i][1], jsrc[i][2], TRUE)]]
            ELSE Bind(SelectSeq(CellSeq, Mover), LAMBDA msrc :
                    [i \in DOMAIN msrc |->
                        [k |-> msrc[i],
                         v |-> get_valid_moves(b, msrc[i][1], msrc[i][2], FALSE)]]))

\* get_winner returning "black" in both branches.
get_winner_black_twice(b) ==
    IF b.red_left <= 0 THEN "black"
    ELSE IF b.black_left <= 0 THEN "black"
    ELSE NoColor

\* get_winner with the two colours exchanged.
get_winner_swapped(b) ==
    IF b.red_left <= 0 THEN "red"
    ELSE IF b.black_left <= 0 THEN "black"
    ELSE NoColor

\* Board.get_winner
get_winner(b) ==
    IF b.red_left <= 0 THEN "black"
    ELSE IF b.black_left <= 0 THEN "red"
    ELSE NoColor

-----------------------------------------------------------------------------
(* ComputerPlayer                                                          *)

\* The (from_pos, to_pos, captures) triples of a dict of dicts, in the order
\* of the nested `for ... in d.items()` loops.
RECURSIVE Flatten(_)
Flatten(d) ==
    IF d = << >> THEN << >>
    ELSE [i \in DOMAIN Head(d).v |->
            [from_pos |-> Head(d).k, to_pos |-> Head(d).v[i].k,
             captures |-> Head(d).v[i].v]]
         \o Flatten(Tail(d))

\* The dict `jump_moves` built by the medium and hard branches.
JumpMovesOf(moves) ==
    LET Inner(m) == SelectSeq(m, LAMBDA e : e.v # << >>)
        kept == SelectSeq(moves, LAMBDA e : Inner(e.v) # << >>)
    IN  [i \in DOMAIN kept |-> [k |-> kept[i].k, v |-> Inner(kept[i].v)]]

\* KingMovesOf without the test `if not piece.king`.
KingMovesOf_any_piece(b, color, moves) ==
    LET king_row == IF color = "red" THEN 0 ELSE 7
        Inner(m) == SelectSeq(m, LAMBDA e : e.k[1] = king_row)
        kept == SelectSeq(moves, LAMBDA e : Inner(e.v) # << >>)
    IN  [i \in DOMAIN kept |-> [k |-> kept[i].k, v |-> Inner(kept[i].v)]]

\* The dict `king_moves` built by the medium and hard branches.
KingMovesOf(b, color, moves) ==
    LET king_row == IF color = "red" THEN 0 ELSE 7
        Inner(m) == SelectSeq(m, LAMBDA e : e.k[1] = king_row)
        NotKing(e) == ~ b.pieces[get_piece(b, e.k[1], e.k[2])].king
        kept == SelectSeq(moves, LAMBDA e : NotKing(e) /\ Inner(e.v) # << >>)
    IN  [i \in DOMAIN kept |-> [k |-> kept[i].k, v |-> Inner(kept[i].v)]]

\* RandomPairs taking the destination from the dict of any source.
RandomPairs_any_source(d) ==
    UNION {{<<d[i].k, d[h].v[j].k>> : j \in DOMAIN d[h].v} :
                <<i, h>> \in (DOMAIN d) \X (DOMAIN d)}

\* The outcomes of random.choice(keys) followed by random.choice(d[key].keys()).
RandomPairs(d) ==
    UNION {{<<d[i].k, d[i].v[j].k>> : j \in DOMAIN d[i].v} : i \in DOMAIN d}

\* BestJump with `>=` for `>` in the test of the loop: the last pair with the
\* longest capture list.
BestJump_last(jump_moves) ==
    Bind(Flatten(jump_moves), LAMBDA flat :
        LET Better(i) ==
                /\ Len(flat[i].captures) >= 0
                /\ \A j \in 1 .. (i - 1) :
                      Len(flat[j].captures) <= Len(flat[i].captures)
            updates == {i \in DOMAIN flat : Better(i)}
        IN  IF updates = {} THEN <<None, None>>
            ELSE LET final == CHOOSE i \in updates : \A j \in updates : j <= i
                 IN  <<flat[final].from_pos, flat[final].to_pos>>)

\* The pair the `most_captures` loop of the hard branch leaves in
\* (best_from_pos, best_to_pos).  The loop starts from (None, None) and 0 and
\* takes the pair at i when its capture list is longer than every list
\* before it and than 0; the last pair taken is returned.
BestJump(jump_moves) ==
    Bind(Flatten(jump_moves), LAMBDA flat :
        LET Better(i) ==
                /\ Len(flat[i].captures) > 0
                /\ \A j \in 1 .. (i - 1) :
                      Len(flat[j].captures) < Len(flat[i].captures)
            updates == {i \in DOMAIN flat : Better(i)}
        IN  IF updates = {} THEN <<None, None>>
            ELSE LET final == CHOOSE i \in updates : \A j \in updates : j <= i
                 IN  <<flat[final].from_pos, flat[final].to_pos>>)

\* ComputerPlayer.get_move: the set of pairs the call can return for a
\* non-empty valid_moves (random.choice is a nondeterministic choice).
get_move(b, color, level, moves) ==
    IF level = "easy" THEN RandomPairs(moves)
    ELSE Bind(JumpMovesOf(moves), LAMBDA jump_moves :
            IF jump_moves # << >>
            THEN IF level = "medium"
                 THEN RandomPairs(jump_moves)
                 ELSE {BestJump(jump_moves)}
            ELSE Bind(KingMovesOf(b, color, moves), LAMBDA king_moves :
                    IF king_moves # << >>
                    THEN RandomPairs(king_moves)
                    ELSE RandomPairs(moves)))

-----------------------------------------------------------------------------
(* Game.  The operators take a record s of all fields of the Game, of its  *)
(* Board and the heap, and return the record the method leaves.            *)

\* switch_turn with the two branches of the conditional exchanged: the colour
\* stays.
switch_turn_stays(s) ==
    [s EXCEPT !.current_color = IF @ = "red" THEN "red" ELSE "black"]

\* Game.switch_turn
switch_turn(s) == [s EXCEPT !.current_color = OtherColor(@)]

\* make_move without `self.selected_piece = None` after the call of
\* move_piece.
make_move_keeps_selection(s, from_pos, row, col) ==
    LET to_pos == <<row, col>>
        moved == s.grid[from_pos]
        Made(mp) ==
            [mp.board EXCEPT
                !.moves_made = @ + 1,
                !.last = [from_pos |-> from_pos, to_pos |-> to_pos,
                          color |-> s.pieces[moved].color,
                          was_king |-> s.pieces[moved].king,
                          captured |-> IF mp.captured # << >>
                                       THEN s.grid[mp.captured[1]] ELSE None,
                          continues |-> FALSE]]
    IN  Bind(move_piece(s, from_pos, to_pos), LAMBDA mp :
        Bind(Made(mp), LAMBDA s1 :
        Bind(get_valid_moves(s1, row, col, TRUE), LAMBDA jump_moves :
            IF mp.captured # << >> /\ jump_moves # << >>
            THEN [s1 EXCEPT !.selected_piece = get_piece(s1, row, col),
                            !.valid_moves = << [k |-> <<row, col>>, v |-> jump_moves] >>,
                            !.last = [@ EXCEPT !.continues = TRUE]]
            ELSE switch_turn(s1))))

\* make_move without the test `if captured:` before the search for further
\* jumps.
make_move_chains_steps(s, from_pos, row, col) ==
    LET to_pos == <<row, col>>
        moved == s.grid[from_pos]
        Made(mp) ==
            [mp.board EXCEPT
                !.selected_piece = None,
                !.moves_made = @ + 1,
                !.last = [from_pos |-> from_pos, to_pos |-> to_pos,
                          color |-> s.pieces[moved].color,
                          was_king |-> s.pieces[moved].king,
                          captured |-> IF mp.captured # << >>
                                       THEN s.grid[mp.captured[1]] ELSE None,
                          continues |-> FALSE]]
    IN  Bind(move_piece(s, from_pos, to_pos), LAMBDA mp :
        Bind(Made(mp), LAMBDA s1 :
        Bind(get_valid_moves(s1, row, col, TRUE), LAMBDA jump_moves :
            IF jump_moves # << >>
            THEN [s1 EXCEPT !.selected_piece = get_piece(s1, row, col),
                            !.valid_moves = << [k |-> <<row, col>>, v |-> jump_moves] >>,
                            !.last = [@ EXCEPT !.continues = TRUE]]
            ELSE switch_turn(s1))))

\* make_move without the assignment of valid_moves in the continuation.
make_move_keeps_moves(s, from_pos, row, col) ==
    LET to_pos == <<row, col>>
        moved == s.grid[from_pos]
        Made(mp) ==
            [mp.board EXCEPT
                !.selected_piece = None,
                !.moves_made = @ + 1,
                !.last = [from_pos |-> from_pos, to_pos |-> to_pos,
                          color |-> s.pieces[moved].color,
                          was_king |-> s.pieces[moved].king,
                          captured |-> IF mp.captured # << >>
                                       THEN s.grid[mp.captured[1]] ELSE None,
                          continues |-> FALSE]]
    IN  Bind(move_piece(s, from_pos, to_pos), LAMBDA mp :
        Bind(Made(mp), LAMBDA s1 :
        Bind(get_valid_moves(s1, row, col, TRUE), LAMBDA jump_moves :
            IF mp.captured # << >> /\ jump_moves # << >>
            THEN [s1 EXCEPT !.selected_piece = get_piece(s1, row, col),
                            !.last = [@ EXCEPT !.continues = TRUE]]
            ELSE switch_turn(s1))))

\* Game._move, the body of `if to_pos == (row, col)`: the move is made, then
\* the same piece must jump again or the turn passes.
make_move(s, from_pos, row, col) ==
    LET to_pos == <<row, col>>
        moved == s.grid[from_pos]
        Made(mp) ==
            [mp.board EXCEPT
                !.selected_piece = None,
                !.moves_made = @ + 1,
                !.last = [from_pos |-> from_pos, to_pos |-> to_pos,
                          color |-> s.pieces[moved].color,
                          was_king |-> s.pieces[moved].king,
                          captured |-> IF mp.captured # << >>
                                       THEN s.grid[mp.captured[1]] ELSE None,
                          continues |-> FALSE]]
    IN  Bind(move_piece(s, from_pos, to_pos), LAMBDA mp :
        Bind(Made(mp), LAMBDA s1 :
        Bind(get_valid_moves(s1, row, col, TRUE), LAMBDA jump_moves :
            IF mp.captured # << >> /\ jump_moves # << >>
            THEN [s1 EXCEPT !.selected_piece = get_piece(s1, row, col),
                            !.valid_moves = << [k |-> <<row, col>>, v |-> jump_moves] >>,
                            !.last = [@ EXCEPT !.continues = TRUE]]
            ELSE switch_turn(s1))))

\* Game._move: returns the state it leaves and its boolean result.
Game_move(s, row, col) ==
    LET sel == s.pieces[s.selected_piece]
        from_pos == <<sel.row, sel.col>>
    IN  IF HasKey(s.valid_moves, from_pos)
           /\ HasKey(Lookup(s.valid_moves, from_pos), <<row, col>>)
        THEN [st |-> make_move(s, from_pos, row, col), result |-> TRUE]
        ELSE [st |-> s, result |-> FALSE]

\* select passing the turn when the second click is no destination.
select_passes_turn(s, row, col) ==
    IF s.selected_piece # None
    THEN Bind(Game_move(s, row, col), LAMBDA m :
            IF ~ m.result
            THEN switch_turn([s EXCEPT !.selected_piece = None])
            ELSE m.st)
    ELSE LET piece == get_piece(s, row, col)
         IN  IF /\ piece # None
                /\ s.pieces[piece].color = s.current_color
                /\ \E i \in DOMAIN s.valid_moves :
                      s.valid_moves[i].k = <<row, col>> /\ s.valid_moves[i].v # << >>
             THEN [s EXCEPT !.selected_piece = piece]
             ELSE s

\* select as Player.select has it (lines 307-315): after a failed move the
\* selection is cleared and the same click is tried as a new selection.
select_reselects(s, row, col) ==
    LET Pick(t) ==
            LET piece == get_piece(t, row, col)
            IN  IF /\ piece # None
                   /\ t.pieces[piece].color = t.current_color
                   /\ \E i \in DOMAIN t.valid_moves :
                         t.valid_moves[i].k = <<row, col>> /\ t.valid_moves[i].v # << >>
                THEN [t EXCEPT !.selected_piece = piece]
                ELSE t
    IN  IF s.selected_piece # None
        THEN Bind(Game_move(s, row, col), LAMBDA m :
                IF ~ m.result
                THEN Pick([s EXCEPT !.selected_piece = None])
                ELSE m.st)
        ELSE Pick(s)

\* select without the test of the colour of the clicked piece.
select_any_colour(s, row, col) ==
    IF s.selected_piece # None
    THEN Bind(Game_move(s, row, col), LAMBDA m :
            IF ~ m.result
            THEN [s EXCEPT !.selected_piece = None]
            ELSE m.st)
    ELSE LET piece == get_piece(s, row, col)
         IN  IF /\ piece # None
                /\ \E i \in DOMAIN s.valid_moves :
                      s.valid_moves[i].k = <<row, col>> /\ s.valid_moves[i].v # << >>
             THEN [s EXCEPT !.selected_piece = piece]
             ELSE s

\* Game.select: the state it leaves.
select(s, row, col) ==
    IF s.selected_piece # None
    THEN Bind(Game_move(s, row, col), LAMBDA m :
            IF ~ m.result
            THEN [s EXCEPT !.selected_piece = None]
            ELSE m.st)
    ELSE LET piece == get_piece(s, row, col)
         IN  IF /\ piece # None
                /\ s.pieces[piece].color = s.current_color
                /\ \E i \in DOMAIN s.valid_moves :
                      s.valid_moves[i].k = <<row, col>> /\ s.valid_moves[i].v # << >>
             THEN [s EXCEPT !.selected_piece = piece]
             ELSE s

\* isinstance(self.players[color], Player): Game.__init__ makes black a
\* ComputerPlayer in one_player mode and everyone else a Player.
IsPlayer(s, color) == ~ (s.mode = "one_player" /\ color = "black")

\* Game.handle_click with pos already divided by SQUARE_SIZE.
handle_click(s, row, col) ==
    IF s.game_over THEN s
    ELSE IF IsPlayer(s, s.current_color) THEN select(s, row, col)
    ELSE s

-----------------------------------------------------------------------------
(* Starting positions                                                      *)

\* setup_board placing the red pieces from row 4 on.
setup_board_four_rows ==
    LET Dark(cell) == (cell[1] + cell[2]) % 2 = 1
        top == SelectSeq(CellSeq, LAMBDA cell : cell[1] < 3 /\ Dark(cell))
        bottom == SelectSeq(CellSeq, LAMBDA cell : 4 <= cell[1] /\ cell[1] < 8 /\ Dark(cell))
    IN  [i \in DOMAIN top |-> Piece("black", top[i][1], top[i][2], FALSE)]
        \o [i \in DOMAIN bottom |-> Piece("red", bottom[i][1], bottom[i][2], FALSE)]

\* Board.setup_board: the Piece objects in the order they are created.
setup_board ==
    LET Dark(cell) == (cell[1] + cell[2]) % 2 = 1
        top == SelectSeq(CellSeq, LAMBDA cell : cell[1] < 3 /\ Dark(cell))
        bottom == SelectSeq(CellSeq, LAMBDA cell : 5 <= cell[1] /\ cell[1] < 8 /\ Dark(cell))
    IN  [i \in DOMAIN top |-> Piece("black", top[i][1], top[i][2], FALSE)]
        \o [i \in DOMAIN bottom |-> Piece("red", bottom[i][1], bottom[i][2], FALSE)]

\* The grid that holds each piece of the heap ps at its own row and col.
GridOf(ps) ==
    [cell \in Cells |->
        IF \E i \in DOMAIN ps : <<ps[i].row, ps[i].col>> = cell
        THEN CHOOSE i \in DOMAIN ps : <<ps[i].row, ps[i].col>> = cell
        ELSE None]

\* Board.__init__ and Game.__init__: a new game.
NewGame ==
    [ps |-> setup_board, red_left |-> 12, black_left |-> 12,
     red_kings |-> 0, black_kings |-> 0, turn |-> "red",
     moves |-> OpeningMoves]

\* Positions of games in progress, each reached by Game.play from a new game
\* (the lines of play are listed in POSITIONS.md).  The counters are the ones
\* the program holds there.

\* Red to move; (4,7) can jump to (2,5) and on to (0,3), while (2,7) can jump to (0,5) and, crowned, on to (2,3).
ChainRed ==
    [ps |-> << Piece("black", 0, 7, FALSE),
           Piece("black", 1, 4, FALSE),
           Piece("black", 1, 6, FALSE),
           Piece("red", 2, 7, FALSE),
           Piece("black", 3, 2, FALSE),
           Piece("black", 3, 6, FALSE),
           Piece("red", 4, 7, FALSE) >>,
     red_left |-> 2, black_left |-> 5, red_kings |-> 0, black_kings |-> 0,
     turn |-> "red", moves |-> MaxMoves]

\* Black to move; (2,1) can jump to (4,3) and on to (6,5), while the king on
\* (7,2) can jump to (5,0).
ChainBlack ==
    [ps |-> << Piece("black", 1, 0, FALSE),
           Piece("black", 2, 1, FALSE),
           Piece("red", 3, 2, FALSE),
           Piece("red", 5, 4, FALSE),
           Piece("red", 6, 1, FALSE),
           Piece("black", 7, 2, TRUE) >>,
     red_left |-> 3, black_left |-> 3, red_kings |-> 0, black_kings |-> 1,
     turn |-> "black", moves |-> MaxMoves]

\* Red to move; the black piece on (6,7) has no move.
BlockRed ==
    [ps |-> << Piece("red", 2, 1, FALSE),
           Piece("red", 3, 6, FALSE),
           Piece("black", 6, 7, FALSE),
           Piece("red", 7, 6, FALSE) >>,
     red_left |-> 3, black_left |-> 1, red_kings |-> 0, black_kings |-> 0,
     turn |-> "red", moves |-> MaxMoves]

\* Black to move; both kings stand next to their own far-edge row.
KingEdge ==
    [ps |-> << Piece("red", 1, 6, TRUE),
           Piece("black", 6, 7, TRUE) >>,
     red_left |-> 1, black_left |-> 1, red_kings |-> 1, black_kings |-> 1,
     turn |-> "black", moves |-> MaxMoves]

\* Red to move; (2,7) jumps the black king on (1,6), the last black piece, and lands on row 0.
PromoCapture ==
    [ps |-> << Piece("red", 0, 1, TRUE),
           Piece("black", 1, 6, TRUE),
           Piece("red", 2, 7, FALSE) >>,
     red_left |-> 2, black_left |-> 1, red_kings |-> 1, black_kings |-> 1,
     turn |-> "red", moves |-> MaxMoves]

\* Red to move; (1,6) steps onto row 0.
PromoStep ==
    [ps |-> << Piece("red", 1, 6, FALSE),
           Piece("black", 5, 6, TRUE) >>,
     red_left |-> 1, black_left |-> 1, red_kings |-> 0, black_kings |-> 1,
     turn |-> "red", moves |-> MaxMoves]

\* Black to move; the king on (7,6) jumps the last red piece.
LastRed ==
    [ps |-> << Piece("red", 6, 5, TRUE),
           Piece("black", 7, 6, TRUE) >>,
     red_left |-> 1, black_left |-> 1, red_kings |-> 1, black_kings |-> 1,
     turn |-> "black", moves |-> MaxMoves]

\* Black to move without a capture; the man on (6,5) can step onto row 7, the
\* man on (4,7) and the king on (6,7) can move as well, the king onto row 7.
PromoChoice ==
    [ps |-> << Piece("red", 2, 3, TRUE),
           Piece("black", 4, 7, FALSE),
           Piece("black", 6, 5, FALSE),
           Piece("black", 6, 7, TRUE) >>,
     red_left |-> 1, black_left |-> 3, red_kings |-> 1, black_kings |-> 1,
     turn |-> "black", moves |-> MaxMoves]

Positions ==
    {NewGame, ChainRed, ChainBlack, BlockRed, KingEdge, PromoCapture, PromoStep,
     LastRed, PromoChoice}

Modes == {"one_player", "two_player"}
Difficulties == {"easy", "medium", "hard"}

NoMove ==
    [from_pos |-> <<0, 0>>, to_pos |-> <<0, 0>>, color |-> NoColor,
     was_king |-> FALSE, captured |-> None, continues |-> FALSE]

-----------------------------------------------------------------------------
(* The state machine                                                       *)

State ==
    [grid |-> grid, pieces |-> pieces, red_left |-> red_left,
     black_left |-> black_left, red_kings |-> red_kings,
     black_kings |-> black_kings, mode |-> mode, difficulty |-> difficulty,
     current_color |-> current_color, selected_piece |-> selected_piece,
     valid_moves |-> valid_moves, game_over |-> game_over, winner |-> winner,
     waiting_for_player |-> waiting_for_player, moves_made |-> moves_made,
     last |-> last]

Becomes(s) ==
    /\ grid' = s.grid
    /\ pieces' = s.pieces
    /\ red_left' = s.red_left
    /\ black_left' = s.black_left
    /\ red_kings' = s.red_kings
    /\ black_kings' = s.black_kings
    /\ mode' = s.mode
    /\ difficulty' = s.difficulty
    /\ current_color' = s.current_color
    /\ selected_piece' = s.selected_piece
    /\ valid_moves' = s.valid_moves
    /\ game_over' = s.game_over
    /\ winner' = s.winner
    /\ waiting_for_player' = s.waiting_for_player
    /\ moves_made' = s.moves_made
    /\ last' = s.last

Init ==
    \E start \in Positions, m \in Modes, d \in Difficulties :
        /\ m = "two_player" => d = "medium"
        /\ pieces = start.ps
        /\ grid = GridOf(start.ps)
        /\ red_left = start.red_left
        /\ black_left = start.black_left
        /\ red_kings = start.red_kings
        /\ black_kings = start.black_kings
        /\ mode = m
        /\ difficulty = d
        /\ current_color = start.turn
        /\ selected_piece = None
        /\ valid_moves = << >>
        /\ game_over = FALSE
        /\ winner = NoColor
        /\ waiting_for_player = FALSE
        /\ running = TRUE
        /\ pc = "top"
        /\ move = None
        /\ move_limit = start.moves
        /\ moves_made = 0
        /\ last = NoMove

\* StartOfTurn naming the colour without moves as the winner.
StartOfTurn_wrong_winner(s) ==
    Bind(IF get_winner(s) # NoColor
         THEN [s EXCEPT !.game_over = TRUE, !.winner = get_winner(s)]
         ELSE s, LAMBDA s1 :
        IF s.waiting_for_player THEN s1
        ELSE Bind([s1 EXCEPT !.valid_moves =
                        get_all_valid_moves(s1, s1.current_color, FALSE)],
                  LAMBDA s2 :
                IF s2.valid_moves = << >>
                THEN [s2 EXCEPT !.game_over = TRUE,
                                !.winner = s2.current_color]
                ELSE s2))

\* The start of one iteration of Game.play: the winner check, the refresh of
\* valid_moves and the no-moves check.
StartOfTurn(s) ==
    Bind(IF get_winner(s) # NoColor
         THEN [s EXCEPT !.game_over = TRUE, !.winner = get_winner(s)]
         ELSE s, LAMBDA s1 :
        IF s.waiting_for_player THEN s1
        ELSE Bind([s1 EXCEPT !.valid_moves =
                        get_all_valid_moves(s1, s1.current_color, FALSE)],
                  LAMBDA s2 :
                IF s2.valid_moves = << >>
                THEN [s2 EXCEPT !.game_over = TRUE,
                                !.winner = IF s2.current_color = "red"
                                          THEN "black" ELSE "red"]
                ELSE s2))

\* The computer's turn of Game.play with the pair get_move returned.
ComputerTurn(s, pair) ==
    Bind([s EXCEPT !.waiting_for_player = TRUE], LAMBDA s1 :
    Bind(select(s1, pair[1][1], pair[1][2]), LAMBDA s2 :
    Bind(select(s2, pair[2][1], pair[2][2]), LAMBDA s3 :
        [s3 EXCEPT !.waiting_for_player = FALSE])))

\* One iteration of Game.play up to the event loop.
PlayTurn ==
    /\ running
    /\ pc = "top"
    /\ \E s \in {StartOfTurn(State)} :
          IF /\ ~ waiting_for_player
             /\ ~ IsPlayer(s, s.current_color)
             /\ ~ s.game_over
          THEN \E pair \in get_move(s, s.current_color, s.difficulty, s.valid_moves) :
                  \E t \in {ComputerTurn(s, pair)} :
                      /\ t.moves_made <= move_limit
                      /\ Becomes(t)
                      /\ move' = pair
          ELSE Becomes(s) /\ move' = move
    /\ pc' = "events"
    /\ UNCHANGED <<running, move_limit>>

\* A MOUSEBUTTONDOWN event of the event loop of Game.play on cell (row, col).
ClickEvent(row, col) ==
    /\ pc = "events"
    /\ \E s \in {State} :
          \E t \in {IF /\ ~ game_over
                       /\ ~ waiting_for_player
                       /\ IsPlayer(s, current_color)
                    THEN handle_click(s, row, col)
                    ELSE s} :
              /\ t.moves_made <= move_limit
              /\ Becomes(t)
    /\ UNCHANGED <<running, pc, move, move_limit>>

\* A QUIT event of the event loop of Game.play: the loop ends with this
\* iteration, the events still queued are handled first.
QuitEvent ==
    /\ pc = "events"
    /\ running
    /\ running' = FALSE
    /\ UNCHANGED <<grid, pieces, red_left, black_left, red_kings, black_kings,
                   mode, difficulty, current_color, selected_piece, valid_moves,
                   game_over, winner, waiting_for_player, move_limit,
                   moves_made, last, pc, move>>

\* EndFrame clearing game_over after the winner was displayed, for another
\* round, where the loop is to be left.
EndFrame_restart ==
    /\ pc = "events"
    /\ IF game_over /\ winner # NoColor
       THEN game_over' = FALSE /\ pc' = "top"
       ELSE game_over' = game_over /\ pc' = IF running THEN "top" ELSE "done"
    /\ UNCHANGED <<grid, pieces, red_left, black_left, red_kings, black_kings,
                   mode, difficulty, current_color, selected_piece, valid_moves,
                   winner, waiting_for_player, move_limit, moves_made, last,
                   running, move>>

\* The end of one iteration of Game.play: the winner is displayed and the
\* loop left, or the next iteration starts.
EndFrame ==
    /\ pc = "events"
    /\ IF game_over /\ winner # NoColor
       THEN running' = FALSE /\ pc' = "done"
       ELSE running' = running /\ pc' = IF running THEN "top" ELSE "done"
    /\ UNCHANGED <<grid, pieces, red_left, black_left, red_kings, black_kings,
                   mode, difficulty, current_color, selected_piece, valid_moves,
                   game_over, winner, waiting_for_player, move_limit,
                   moves_made, last, move>>

Next ==
    \/ PlayTurn
    \/ \E row \in Rows, col \in Cols : ClickEvent(row, col)
    \/ QuitEvent
    \/ EndFrame

Spec == Init /\ [][Next]_vars

-----------------------------------------------------------------------------
(* ComputerPlayer.get_move on its own: the move sets are drawn from a       *)
(* bounded set of dicts and get_move is applied to each of them.            *)

\* The sources of the dicts drawn, the pieces of Black in ChainBlack that
\* can move, and the destinations of each, all in the order of insertion.
SelectorSources == << <<2, 1>>, <<7, 2>> >>

SelectorDests(from_pos) ==
    IF from_pos = <<2, 1>> THEN << <<3, 0>>, <<4, 3>> >>
    ELSE << <<5, 0>>, <<6, 3>> >>

\* A capture list of n cells.
CaptureList(n) == SubSeq(<< <<3, 2>>, <<5, 4>>, <<6, 1>>, <<6, 3>> >>, 1, n)

\* The dict that gives destination j of source i a capture list of
\* lens[i][j] cells and leaves the destination out when lens[i][j] is -1; a
\* source without destinations is left out.
MoveDict(lens) ==
    LET Inner(i) ==
            LET dests == SelectorDests(SelectorSources[i])
                kept == SelectSeq(<<1, 2>>, LAMBDA j : lens[i][j] >= 0)
            IN  [n \in DOMAIN kept |->
                    [k |-> dests[kept[n]], v |-> CaptureList(lens[i][kept[n]])]]
        srcs == SelectSeq(<<1, 2>>, LAMBDA i : Inner(i) # << >>)
    IN  [n \in DOMAIN srcs |-> [k |-> SelectorSources[srcs[n]], v |-> Inner(srcs[n])]]

SelectorInit ==
    \E lens \in [{1, 2} -> [{1, 2} -> -1 .. MaxCaptures]], d \in Difficulties :
        /\ MoveDict(lens) # << >>
        /\ valid_moves = MoveDict(lens)
        /\ pieces = ChainBlack.ps
        /\ grid = GridOf(ChainBlack.ps)
        /\ red_left = ChainBlack.red_left
        /\ black_left = ChainBlack.black_left
        /\ red_kings = ChainBlack.red_kings
        /\ black_kings = ChainBlack.black_kings
        /\ mode = "one_player"
        /\ difficulty = d
        /\ current_color = "black"
        /\ selected_piece = None
        /\ game_over = FALSE
        /\ winner = NoColor
        /\ waiting_for_player = FALSE
        /\ running = TRUE
        /\ pc = "get_move"
        /\ move = None
        /\ move_limit = 0
        /\ moves_made = 0
        /\ last = NoMove

\* The call of get_move of Game.play.
SelectorGetMove ==
    /\ pc = "get_move"
    /\ move' \in get_move(State, current_color, difficulty, valid_moves)
    /\ pc' = "returned"
    /\ UNCHANGED <<grid, pieces, red_left, black_left, red_kings, black_kings,
                   mode, difficulty, current_color, selected_piece, valid_moves,
                   game_over, winner, waiting_for_player, running, move_limit,
                   moves_made, last>>

SelectorNext == SelectorGetMove

SelectorSpec == SelectorInit /\ [][SelectorNext]_vars

-----------------------------------------------------------------------------
(* Properties                                                              *)

\* The cells of the grid that hold a piece of the colour.
CellsOf(color) ==
    {cell \in Cells : grid[cell] # None /\ pieces[grid[cell]].color = color}

\* The cells of the grid that hold a king of the colour.
KingCellsOf(color) ==
    {cell \in CellsOf(color) : pieces[grid[cell]].king}

OnGrid(cell) == cell \in Cells

\* The directions the rules give a piece: up for Red, down for Black, both
\* for a king.
RuleDirections(p) ==
    {d \in {-1, 1} \X {-1, 1} :
        \/ p.king
        \/ p.color = "red" /\ d[1] = -1
        \/ p.color = "black" /\ d[1] = 1}

\* The piece on the cell can jump in direction d: an opposing piece next to
\* it and an empty cell of the grid behind that piece.
JumpOpen(cell, d) ==
    LET over == <<cell[1] + d[1], cell[2] + d[2]>>
        land == <<cell[1] + 2 * d[1], cell[2] + 2 * d[2]>>
    IN  /\ OnGrid(over) /\ OnGrid(land)
        /\ grid[over] # None
        /\ pieces[grid[over]].color # pieces[grid[cell]].color
        /\ grid[land] = None

HasJump(cell) ==
    \E d \in RuleDirections(pieces[grid[cell]]) : JumpOpen(cell, d)

HasStep(cell) ==
    \E d \in RuleDirections(pieces[grid[cell]]) :
        LET to == <<cell[1] + d[1], cell[2] + d[2]>>
        IN  OnGrid(to) /\ grid[to] = None

\* The step just taken called Board.move_piece.
Moved == moves_made' = moves_made + 1

\* The step just taken is the start of an iteration of Game.play.
TurnStarts == pc = "top" /\ pc' = "events"

PieceCountsMatch ==
    /\ red_left = Cardinality(CellsOf("red"))
    /\ black_left = Cardinality(CellsOf("black"))

TotalOnGrid == Cardinality({cell \in Cells : grid[cell] # None})

\* C1: red_left and black_left equal the numbers of Red and Black pieces on
\* the grid in every reachable state, and the number of pieces on the grid
\* never grows from one state to the next.
C1_PieceCounts ==
    /\ [](PieceCountsMatch)
    /\ [][TotalOnGrid' <= TotalOnGrid]_vars

C1_Witness ==
    /\ last.captured # None
    /\ PieceCountsMatch
    /\ red_left + black_left = TotalOnGrid

\* C2: red_kings and black_kings equal the numbers of Red and Black kings on
\* the grid in every reachable state; a king that moves onto its far-edge row
\* leaves the king counters alone.
C2_KingCounts ==
    /\ red_kings = Cardinality(KingCellsOf("red"))
    /\ black_kings = Cardinality(KingCellsOf("black"))

\* C3: when a piece of a colour has a jump, get_all_valid_moves of that
\* colour lists captures only, and only pieces that have a jump.
C3_MandatoryCapture ==
    \A color \in {"red", "black"} :
        LET all_moves == get_all_valid_moves(State, color, FALSE)
        IN  (\E cell \in CellsOf(color) : HasJump(cell)) =>
                \A i \in DOMAIN all_moves :
                    /\ all_moves[i].v # << >>
                    /\ HasJump(all_moves[i].k)
                    /\ \A j \in DOMAIN all_moves[i].v : all_moves[i].v[j].v # << >>

C3_Witness ==
    \E color \in {"red", "black"} :
        /\ \E cell \in CellsOf(color) : HasJump(cell)
        /\ \E cell \in CellsOf(color) : ~ HasJump(cell) /\ HasStep(cell)
        /\ current_color = color
        /\ valid_moves = get_all_valid_moves(State, color, FALSE)

\* The cells the piece on the cell can jump to.
JumpTargets(cell) ==
    {<<cell[1] + 2 * d[1], cell[2] + 2 * d[2]>> :
        d \in {e \in RuleDirections(pieces[grid[cell]]) : JumpOpen(cell, e)}}

\* The row on which a piece of the colour is kinged.
FarEdge(color) == IF color = "red" THEN 0 ELSE 7

KingCounter(color) == IF color = "red" THEN red_kings ELSE black_kings

KingCounterAfter(color) == IF color = "red" THEN red_kings' ELSE black_kings'

\* C4: in a forced continuation of colour c at cell X (the last move was a
\* capture after which Game._move kept the turn), only the piece at X is
\* ever selected, and the next move is a jump of the piece at X.
C4_ForcedLock ==
    [][last.continues =>
          /\ selected_piece' \in {None, grid[last.to_pos]}
          /\ Moved => last'.from_pos = last.to_pos /\ last'.captured # None]_vars

\* valid_moves has one source, the cell the last move ended on, with exactly
\* the jumps of the piece there as destinations.
OnlyContinuation ==
    /\ Len(valid_moves) = 1
    /\ valid_moves[1].k = last.to_pos
    /\ Keys(valid_moves[1].v) = JumpTargets(last.to_pos)
    /\ \A j \in DOMAIN valid_moves[1].v : Len(valid_moves[1].v[j].v) = 1

\* C5: right after a jump that leaves the moved piece a further jump, the
\* colour to move is unchanged and valid_moves has one source, the landing
\* cell, with exactly the jumps of that piece as destinations.
C5_ChainKeepsTurn ==
    [][(Moved /\ (last.captured # None /\ HasJump(last.to_pos))') =>
          /\ current_color' = current_color
          /\ current_color' = last'.color
          /\ OnlyContinuation']_vars

C5_Witness ==
    /\ last.captured # None
    /\ HasJump(last.to_pos)
    /\ current_color = last.color
    /\ OnlyContinuation

\* C6: a move that puts a piece that was no king on the far-edge row of its
\* colour leaves it a king and that colour's king counter one higher; the
\* other colour's king counter is unchanged unless the move captured a king.
C6_Promotion ==
    [][(Moved /\ ~ last'.was_king /\ last'.to_pos[1] = FarEdge(last'.color)) =>
          /\ pieces'[grid'[last'.to_pos]].king
          /\ KingCounterAfter(last'.color) = KingCounter(last'.color) + 1
          /\ (last'.captured = None \/ ~ pieces[last'.captured].king) =>
                KingCounterAfter(OtherColor(last'.color))
                    = KingCounter(OtherColor(last'.color))]_vars

C6_Witness ==
    /\ moves_made > 0
    /\ ~ last.was_king
    /\ last.to_pos[1] = FarEdge(last.color)
    /\ pieces[grid[last.to_pos]].king
    /\ last.captured # None
    /\ pieces[last.captured].king

\* C7: every occupied cell is a dark square of the grid, and the piece on it
\* stores that cell as its row and col.
C7_DarkSquares ==
    \A cell \in DOMAIN grid :
        grid[cell] # None =>
            /\ cell \in Cells
            /\ (cell[1] + cell[2]) % 2 = 1
            /\ pieces[grid[cell]].row = cell[1]
            /\ pieces[grid[cell]].col = cell[2]

C7_Witness ==
    /\ moves_made >= 2
    /\ grid[last.from_pos] = None
    /\ pieces[grid[last.to_pos]].row = last.to_pos[1]
    /\ pieces[grid[last.to_pos]].col = last.to_pos[2]

\* C8: when the colour to move has no legal move, no move is made, and the
\* start of its turn ends the game with the other colour as winner.
C8_NoMovesLoses ==
    [][get_all_valid_moves(State, current_color, FALSE) = << >> =>
          /\ ~ Moved
          /\ grid' = grid
          /\ TurnStarts => game_over' /\ winner' = OtherColor(current_color)]_vars

C8_Witness ==
    /\ game_over
    /\ CellsOf(current_color) # {}
    /\ \A cell \in CellsOf(current_color) : ~ HasJump(cell) /\ ~ HasStep(cell)
    /\ winner = OtherColor(current_color)

WinnerByCount ==
    /\ black_left = 0 => get_winner(State) = "red"
    /\ red_left = 0 => get_winner(State) = "black"
    /\ (red_left > 0 /\ black_left > 0) => get_winner(State) = NoColor

\* C9: with black_left 0 the result is a win of Red and with red_left 0 a
\* win of Black, which the start of the next iteration of the loop records;
\* with both counters positive get_winner names no winner.
C9_Attrition ==
    /\ [](WinnerByCount)
    /\ [][TurnStarts =>
            /\ black_left = 0 => game_over' /\ winner' = "red"
            /\ red_left = 0 => game_over' /\ winner' = "black"]_vars

C9_Witness ==
    /\ black_left = 0
    /\ CellsOf("black") = {}
    /\ game_over
    /\ winner = "red"

\* C10: once game_over is set it stays set, and the board, the counters, the
\* colour to move and the winner change no more.
C10_GameOverTerminal ==
    [][game_over =>
          /\ game_over'
          /\ UNCHANGED <<grid, pieces, red_left, black_left, red_kings,
                         black_kings, current_color, winner>>]_vars

C10_Witness ==
    /\ game_over
    /\ ~ running
    /\ moves_made > 0

\* The state Game.__init__ leaves for a new game, before the first iteration
\* of Game.play.
Constructed ==
    /\ pc = "top"
    /\ moves_made = 0
    /\ valid_moves = << >>
    /\ move_limit = OpeningMoves

\* The cell holds a piece of the colour that is no king.
ManOn(cell, color) ==
    /\ grid[cell] # None
    /\ pieces[grid[cell]].color = color
    /\ ~ pieces[grid[cell]].king

\* C11: a new game starts with Red to move, no selection, the game not over,
\* Black non-king pieces on exactly the dark squares of rows 0-2, Red non-king
\* pieces on exactly the dark squares of rows 5-7, rows 3-4 empty, piece
\* counts 12 and 12 and king counts 0 and 0.
C11_NewGame ==
    Constructed =>
        /\ current_color = "red"
        /\ selected_piece = None
        /\ ~ game_over
        /\ winner = NoColor
        /\ \A cell \in Cells :
              LET dark == (cell[1] + cell[2]) % 2 = 1
              IN  /\ (dark /\ cell[1] \in 0 .. 2) => ManOn(cell, "black")
                  /\ (dark /\ cell[1] \in 5 .. 7) => ManOn(cell, "red")
                  /\ (~ dark \/ cell[1] \in 3 .. 4) => grid[cell] = None
        /\ red_left = 12 /\ black_left = 12
        /\ red_kings = 0 /\ black_kings = 0

C11_Witness ==
    /\ Constructed
    /\ ManOn(<<0, 1>>, "black")
    /\ ManOn(<<7, 0>>, "red")
    /\ grid[<<4, 1>>] = None
    /\ current_color = "red"

\* The (source, destination) pairs of a dict of dicts.
PairsOf(moves) ==
    {<<moves[n[1]].k, moves[n[1]].v[n[2]].k>> :
        n \in {m \in (DOMAIN moves) \X (1 .. 4) : m[2] \in DOMAIN moves[m[1]].v}}

\* C12: for every difficulty and every non-empty legal-move set, get_move
\* returns a pair (from, to) where from is a source of the set and to one of
\* the destinations listed for that source, never None or a pair with a
\* missing component.
C12_MoveFromSet ==
    \A color \in {"red", "black"}, level \in Difficulties :
        LET moves == get_all_valid_moves(State, color, FALSE)
            returned == get_move(State, color, level, moves)
        IN  moves # << >> =>
                /\ returned # {}
                /\ returned \subseteq PairsOf(moves)

\* The computer's first move from a position with Black to move is the pair
\* get_move returned.
C12_Witness ==
    /\ mode = "one_player"
    /\ difficulty = "hard"
    /\ moves_made = 1
    /\ last.color = "black"
    /\ last.captured = None
    /\ grid[last.from_pos] = None
    /\ grid[last.to_pos] # None

\* C13: when the move set contains captures, the hard branch of get_move
\* returns the pair with the longest capture list, the first such pair in
\* the iteration order of the set, and no other pair.
C13_HardLongest ==
    LET flat == Flatten(valid_moves)
        First(i) ==
            /\ \A j \in DOMAIN flat : Len(flat[j].captures) <= Len(flat[i].captures)
            /\ \A j \in 1 .. (i - 1) : Len(flat[j].captures) < Len(flat[i].captures)
    IN  (difficulty = "hard" /\ \E i \in DOMAIN flat : flat[i].captures # << >>) =>
            /\ pc = "get_move" =>
                  Cardinality(get_move(State, current_color, "hard", valid_moves)) = 1
            /\ pc = "returned" =>
                  \E i \in DOMAIN flat :
                      /\ First(i)
                      /\ move = <<flat[i].from_pos, flat[i].to_pos>>

\* Two pairs tie for the longest list, after a pair with a shorter one, and
\* the first of the two was returned.
C13_Witness ==
    LET flat == Flatten(valid_moves)
    IN  /\ pc = "returned"
        /\ difficulty = "hard"
        /\ Len(flat) = 3
        /\ Len(flat[1].captures) = 1
        /\ Len(flat[2].captures) = 2
        /\ Len(flat[3].captures) = 2
        /\ move = <<flat[2].from_pos, flat[2].to_pos>>

\* The step just taken is the start of an iteration of Game.play in which the
\* computer, Black in one_player mode, is to move and the game is not over.
ComputerMoves ==
    /\ TurnStarts
    /\ mode = "one_player"
    /\ current_color = "black"
    /\ ~ game_over'

\* C14: in one_player mode, when it is the computer's turn and the game is
\* not over, the select(from) / select(to) pair of that iteration applies
\* exactly the move get_move returned: the piece at from ends at to, also in
\* a forced continuation of the computer.
C14_ComputerMoveApplied ==
    [][ComputerMoves =>
          /\ Moved
          /\ move' = <<last'.from_pos, last'.to_pos>>
          /\ grid'[move'[2]] = grid[move'[1]]
          /\ grid'[move'[1]] = None]_vars

\* C15: the colour to move changes only in a step that makes a move, and a
\* move changes it exactly when it captured nothing or left the moved piece
\* no jump from the cell it landed on.
C15_TurnPasses ==
    [][/\ current_color' # current_color => Moved
       /\ Moved =>
             (current_color' # current_color
                <=> (last.captured = None \/ ~ HasJump(last.to_pos))')]_vars

\* A capture after which the piece has no jump passed the turn.
C15_Witness ==
    /\ moves_made > 0
    /\ last.captured # None
    /\ ~ HasJump(last.to_pos)
    /\ current_color = OtherColor(last.color)

\* The step just taken is a jump of a piece that was no king onto the
\* far-edge row of its colour.
PromotingJump ==
    /\ Moved
    /\ ~ last'.was_king
    /\ last'.captured # None
    /\ last'.to_pos[1] = FarEdge(last'.color)

\* C16: a non-king piece that jumps onto its far-edge row is a king after
\* that step whether or not it has a further jump; if as a king it has a jump
\* from the landing cell, the same colour stays to move in a forced
\* continuation with that piece.
C16_PromotionInChain ==
    [][PromotingJump =>
          /\ pieces'[grid'[last'.to_pos]].king
          /\ (HasJump(last.to_pos))' =>
                /\ current_color' = current_color
                /\ last'.continues
                /\ selected_piece' = grid'[last'.to_pos]
                /\ OnlyContinuation']_vars

\* A piece crowned by a jump goes on as a king: its only jump leads back.
C16_Witness ==
    /\ moves_made > 0
    /\ ~ last.was_king
    /\ last.captured # None
    /\ last.to_pos[1] = FarEdge(last.color)
    /\ pieces[grid[last.to_pos]].king
    /\ HasJump(last.to_pos)
    /\ current_color = last.color
    /\ selected_piece = grid[last.to_pos]
    /\ last.continues

\* The step just taken handled a MOUSEBUTTONDOWN event.
ClickStep == pc = "events" /\ pc' = "events" /\ running' = running

\* C17: a click that is not accepted as a move leaves the grid, the pieces,
\* the four counters, the colour to move and the game result unchanged; only
\* the selection may change.
C17_RejectedClick ==
    [][(ClickStep /\ ~ Moved) =>
          UNCHANGED <<grid, pieces, red_left, black_left, red_kings,
                      black_kings, current_color, game_over, winner>>]_vars

\* A click selected a piece of the player to move and made no move.
C17_Witness ==
    /\ pc = "events"
    /\ moves_made = 0
    /\ selected_piece # None
    /\ IsPlayer(State, current_color)
    /\ pieces[selected_piece].color = current_color

\* A click of a human player can be handled: the game is not over and the
\* colour to move is played by a Player.
HumanToMove == ~ game_over /\ IsPlayer(State, current_color)

\* The destinations valid_moves lists for the cell of the selected piece.
ListedDestinations ==
    LET from_pos == <<pieces[selected_piece].row, pieces[selected_piece].col>>
    IN  IF HasKey(valid_moves, from_pos)
        THEN Keys(Lookup(valid_moves, from_pos))
        ELSE {}

\* The cell is a source of valid_moves with at least one destination and
\* holds a piece of the colour to move.
MovableSource(cell) ==
    /\ grid[cell] # None
    /\ pieces[grid[cell]].color = current_color
    /\ HasKey(valid_moves, cell)
    /\ Lookup(valid_moves, cell) # << >>

\* C18: with a piece selected, a click on a cell that is no listed
\* destination of it clears the selection and makes no move, and the click is
\* not taken as a new selection, also when the cell holds a movable piece of
\* the colour to move.
C18_NoReselect ==
    (HumanToMove /\ selected_piece # None) =>
        \A cell \in Cells \ ListedDestinations :
            LET after == handle_click(State, cell[1], cell[2])
            IN  /\ after.selected_piece = None
                /\ after.moves_made = moves_made
                /\ after.grid = grid

\* A piece is selected and another movable piece of the colour can be
\* clicked; the click leaves nothing selected.
C18_Witness ==
    /\ pc = "events"
    /\ HumanToMove
    /\ selected_piece # None
    /\ \E cell \in Cells :
          /\ MovableSource(cell)
          /\ grid[cell] # selected_piece
          /\ handle_click(State, cell[1], cell[2]).selected_piece = None

\* C19: with nothing selected, a click selects the piece on the clicked cell
\* if and only if the cell holds a piece of the colour to move and is a
\* source of valid_moves with at least one destination; any other first
\* click leaves the selection empty.
C19_FirstClick ==
    (HumanToMove /\ selected_piece = None) =>
        \A cell \in Cells :
            LET after == handle_click(State, cell[1], cell[2])
            IN  /\ MovableSource(cell) => after.selected_piece = grid[cell]
                /\ ~ MovableSource(cell) => after.selected_piece = None
                /\ after.grid = grid
                /\ after.current_color = current_color

\* Nothing is selected and a click on one piece of the colour to move
\* selects it while a click on another of its pieces does not.
C19_Witness ==
    /\ pc = "events"
    /\ HumanToMove
    /\ selected_piece = None
    /\ \E cell \in Cells :
          /\ MovableSource(cell)
          /\ handle_click(State, cell[1], cell[2]).selected_piece = grid[cell]
    /\ \E cell \in Cells :
          /\ grid[cell] # None
          /\ pieces[grid[cell]].color = current_color
          /\ ~ MovableSource(cell)
          /\ handle_click(State, cell[1], cell[2]).selected_piece = None

\* The entry from_pos -> to_pos with the capture list is a move of the rules
\* for a piece of the colour: one diagonal step onto an empty cell of the
\* grid, or one jump over an opposing piece next to it onto the empty cell
\* behind, forward for a man and either way for a king.
RuleMove(color, from_pos, to_pos, captures) ==
    LET rows == to_pos[1] - from_pos[1]
        cols == to_pos[2] - from_pos[2]
        mid == <<(from_pos[1] + to_pos[1]) \div 2, (from_pos[2] + to_pos[2]) \div 2>>
    IN  /\ grid[from_pos] # None
        /\ pieces[grid[from_pos]].color = color
        /\ OnGrid(to_pos)
        /\ grid[to_pos] = None
        /\ Abs(rows) = Abs(cols)
        /\ Abs(rows) \in {1, 2}
        /\ ~ pieces[grid[from_pos]].king =>
              IF color = "red" THEN rows < 0 ELSE rows > 0
        /\ Abs(rows) = 2 <=>
              /\ captures = <<mid>>
              /\ grid[mid] # None
              /\ pieces[grid[mid]].color = OtherColor(color)
        /\ Abs(rows) = 1 <=> captures = << >>

\* C20: every entry of the legal-move set of a colour is one step or one
\* jump of the rules; no move of a man or a king spans more than one jump.
C20_LegalEntries ==
    \A color \in {"red", "black"}, jump_only \in BOOLEAN :
        LET flat == Flatten(get_all_valid_moves(State, color, jump_only))
        IN  \A i \in DOMAIN flat :
                RuleMove(color, flat[i].from_pos, flat[i].to_pos, flat[i].captures)

\* The legal-move set of Black holds a jump of a king to a smaller row, and
\* that of Red a step of a man.
C20_Witness ==
    LET black_moves == Flatten(get_all_valid_moves(State, "black", FALSE))
        red_moves == Flatten(get_all_valid_moves(State, "red", FALSE))
    IN  /\ \E i \in DOMAIN black_moves :
              /\ pieces[grid[black_moves[i].from_pos]].king
              /\ black_moves[i].to_pos[1] = black_moves[i].from_pos[1] - 2
              /\ Len(black_moves[i].captures) = 1
        /\ \E i \in DOMAIN red_moves :
              /\ ~ pieces[grid[red_moves[i].from_pos]].king
              /\ red_moves[i].captures = << >>
        /\ valid_moves = get_all_valid_moves(State, current_color, FALSE)

LeftCounter(color) == IF color = "red" THEN red_left ELSE black_left

LeftCounterAfter(color) == IF color = "red" THEN red_left' ELSE black_left'

\* C21: an accepted step changes only the from and to cells of the grid and
\* no piece count; an accepted jump changes exactly the from, to and midpoint
\* cells, the midpoint held a piece of the other colour, whose piece count
\* drops by 1 and whose king count drops by 1 if that piece was a king, and
\* the piece count of the mover is unchanged.
C21_MoveFrame ==
    [][Moved =>
          LET from_pos == last'.from_pos
              to_pos == last'.to_pos
              mid == <<(from_pos[1] + to_pos[1]) \div 2,
                       (from_pos[2] + to_pos[2]) \div 2>>
              jump == Abs(to_pos[1] - from_pos[1]) = 2
              mover == last'.color
              other == OtherColor(last'.color)
          IN  /\ grid[from_pos] # None
              /\ grid'[from_pos] = None
              /\ grid'[to_pos] = grid[from_pos]
              /\ LeftCounterAfter(mover) = LeftCounter(mover)
              /\ ~ jump =>
                    /\ \A cell \in Cells \ {from_pos, to_pos} : grid'[cell] = grid[cell]
                    /\ LeftCounterAfter(other) = LeftCounter(other)
              /\ jump =>
                    /\ \A cell \in Cells \ {from_pos, to_pos, mid} :
                          grid'[cell] = grid[cell]
                    /\ grid[mid] # None
                    /\ grid'[mid] = None
                    /\ pieces[grid[mid]].color = other
                    /\ LeftCounterAfter(other) = LeftCounter(other) - 1
                    /\ KingCounterAfter(other)
                          = KingCounter(other) - (IF pieces[grid[mid]].king THEN 1 ELSE 0)]_vars

\* The last move jumped a king: the jumped cell is empty and no king of that
\* colour is counted any more.
C21_Witness ==
    /\ moves_made > 0
    /\ last.captured # None
    /\ pieces[last.captured].king
    /\ Abs(last.to_pos[1] - last.from_pos[1]) = 2
    /\ grid[<<(last.from_pos[1] + last.to_pos[1]) \div 2,
              (last.from_pos[2] + last.to_pos[2]) \div 2>>] = None
    /\ KingCounter(OtherColor(last.color)) = 0
    /\ LeftCounter(OtherColor(last.color)) = 0

\* C22: for the medium and hard selectors, when no entry of the legal-move
\* set is a capture and some piece that is no king has a destination on the
\* far-edge row of the selector's colour, the returned move goes from a piece
\* that is no king to that row; when there is no such pair, every legal pair
\* can be returned.
C22_PrefersPromotion ==
    \A color \in {"red", "black"}, level \in {"medium", "hard"} :
        LET moves == get_all_valid_moves(State, color, FALSE)
            flat == Flatten(moves)
            promoting ==
                {pair \in PairsOf(moves) :
                    /\ ~ pieces[grid[pair[1]]].king
                    /\ pair[2][1] = FarEdge(color)}
            returned == get_move(State, color, level, moves)
        IN  (moves # << >> /\ \A i \in DOMAIN flat : flat[i].captures = << >>) =>
                IF promoting # {}
                THEN returned # {} /\ returned \subseteq promoting
                ELSE returned = PairsOf(moves)

\* The computer stepped a man onto row 7 from PromoChoice, where the man on
\* (4,7) and the king could have moved instead.
C22_Witness ==
    /\ mode = "one_player"
    /\ difficulty \in {"medium", "hard"}
    /\ moves_made = 1
    /\ move = <<last.from_pos, last.to_pos>>
    /\ last.color = "black"
    /\ ~ last.was_king
    /\ last.captured = None
    /\ last.to_pos[1] = 7
    /\ grid[<<4, 7>>] # None
    /\ grid[<<6, 7>>] # None
    /\ Cardinality(CellsOf("black")) = 3

\* C23: whenever the game is over the recorded winner is the opponent of the
\* colour to move, and the two win checks never disagree: when the piece
\* count names a winner and the colour to move has no legal move, the piece
\* count names the opponent of the colour to move.
C23_WinChecksAgree ==
    /\ game_over => winner = OtherColor(current_color)
    /\ (/\ get_winner(State) # NoColor
        /\ get_all_valid_moves(State, current_color, FALSE) = << >>)
          => get_winner(State) = OtherColor(current_color)

\* Black took the last red piece: both checks name Black.
C23_Witness ==
    /\ game_over
    /\ red_left = 0
    /\ current_color = "red"
    /\ get_winner(State) = "black"
    /\ valid_moves = << >>
    /\ winner = "black"

\* C24: whenever a piece is selected it stands on the grid at the row and
\* col it records, has the colour to move, and its cell is a source with at
\* least one destination in valid_moves and in the legal-move set of the
\* colour to move; a captured piece or a piece of the other colour is never
\* the selected piece.
C24_SelectionValid ==
    selected_piece # None =>
        LET p == pieces[selected_piece]
            pos == <<p.row, p.col>>
        IN  /\ pos \in Cells
            /\ grid[pos] = selected_piece
            /\ p.color = current_color
            /\ HasKey(valid_moves, pos)
            /\ Lookup(valid_moves, pos) # << >>
            /\ HasKey(get_all_valid_moves(State, current_color, FALSE), pos)

\* The piece that must go on jumping is still selected after valid_moves was
\* computed anew and lists a second source.
C24_Witness ==
    /\ selected_piece # None
    /\ last.continues
    /\ selected_piece = grid[last.to_pos]
    /\ pc = "events"
    /\ Len(valid_moves) > 1
    /\ HasKey(valid_moves, last.to_pos)

\* C25: between two changes of the colour to move the accepted moves are one
\* non-capturing step or one or more jumps: a move made while the colour of
\* the move before it is still to move is a jump, as was the move before it,
\* and a non-capturing step always passes the turn.
C25_TurnShape ==
    [][Moved =>
          /\ (moves_made > 0 /\ last.color = current_color) =>
                /\ last.captured # None
                /\ last'.captured # None
          /\ last'.captured = None => current_color' # current_color]_vars

\* The second jump of a turn was made by another piece than the first.
C25_Witness ==
    /\ moves_made = 2
    /\ last.captured # None
    /\ last.color = "red"
    /\ red_left + black_left = TotalOnGrid
    /\ black_left = 3
    /\ last.from_pos = <<2, 7>>

====
